---- MODULE Spec2Model ----
(***************************************************************************)
(* Agent lifecycle manager of the multi-tenant OTP relay (BotManager.js).  *)
(*                                                                         *)
(* One step of the model is one run of the JavaScript event loop between   *)
(* two suspension points: a handler (an API call, a timer callback) or the *)
(* continuation of an `await`.  Everything the code does synchronously     *)
(* inside such a run is part of the same action.                           *)
(*                                                                         *)
(* A bot instance (the object built at BotManager.js:26-40) lives in a     *)
(* slot of `inst`; the registry `bots` maps a bot id to the slot of the    *)
(* instance stored under it.  A slot is taken by a startBot call when it   *)
(* passes the registry check; MaxInst bounds the number of such calls.     *)
(***************************************************************************)
EXTENDS Integers, Sequences, FiniteSets, TLC

(* ------------------------------ bounds --------------------------------- *)
\* number of instance slots: startBot calls that pass the registry check
MaxInst == 2
\* rows of one console snapshot
MaxRows == 2
\* poll cycles counted per instance
MaxPolls == 3
\* session rebuilds started per instance
MaxRebuilds == 2
\* clock granule and horizon, in milliseconds
TickMs == 100000
MaxNow == 500000
\* the cache limit of the code (1000), scaled down so that eviction happens
\* within a few poll cycles
CacheMax == 1
\* length of config.telegram_chat_ids
NumDest == 2
\* longest phone number handed to maskPhoneNumber, in characters
MaxPhoneLen == 7
\* longest message body handed to extractOTP, in tokens
MaxTokens == 5
\* the save limit of the code (1000) as the helper calls scale it: two, so
\* that what a flush keeps has an order
FlushMax == 2

(* ------------------------- program constants --------------------------- *)
\* performHealthCheck: timeSinceLastPoll > 300000
StaleAfter == 300000

\* pollSMS keeps slice(-500) of a cache over 1000: half the limit
CacheKeep == (CacheMax + 1) \div 2
\* saveSentMessages writes slice(-1000): the cache limit again
SaveMax == CacheMax
\* distinct message hashes the console can show: enough to overflow the cache
NumHashes == CacheMax + 1

BotIds == {1}
Slots == 1..MaxInst
Hashes == 1..NumHashes

(* ------------------------------ state ---------------------------------- *)
VARIABLES
  bots,     \* this.bots: bot id -> slot of the registered instance, 0 = absent
  inst,     \* slot -> bot instance and the coroutines running on it
  files,    \* bot id -> content of ./data/bot-<id>-messages.json
  console,  \* hashes of the candidate rows the vendor console shows now
  now,      \* Date.now()
  obs,      \* slot -> observations about the instance (history, not program state)
  proc,     \* the server process: running or not, and the maintenance_mode setting
  call      \* a helper function under evaluation: its argument and its result

vars == <<bots, inst, files, console, now, obs, proc, call>>

(* --------------------------- pure helpers ------------------------------ *)
\* Set.prototype.has on a Set kept as its insertion-ordered sequence
HasHash(c, h) == \E i \in 1..Len(c) : c[i] = h

\* variant: the hash is not recorded
AddHash_Forget(c, h) == c

\* Set.prototype.add: a present element keeps its place, a new one goes last
AddHash(c, h) == IF HasHash(c, h) THEN c ELSE Append(c, h)

\* Array.prototype.slice(-n), n >= 1
LastN(c, n) == IF Len(c) <= n THEN c ELSE SubSeq(c, Len(c) - n + 1, Len(c))

\* variant: the oldest entries are kept
TrimCache_KeepOldest(c) == IF Len(c) > CacheMax THEN SubSeq(c, 1, CacheKeep) ELSE c

\* pollSMS: if (size > 1000) keep slice(-500)
TrimCache(c) == IF Len(c) > CacheMax THEN LastN(c, CacheKeep) ELSE c

\* saveSentMessages: Array.from(set).slice(-1000) written to the file, for a
\* limit of cap in place of the 1000
Flushed(c, cap) == LastN(c, cap)

\* saveSentMessages of an agent, whose limit is SaveMax
SavedForm(c) == Flushed(c, SaveMax)

\* markExistingMessagesAsSent: messages.forEach(add)
RECURSIVE AddAll(_, _)
AddAll(c, ms) == IF ms = <<>> THEN c ELSE AddAll(AddHash(c, Head(ms)), Tail(ms))

\* variant: the parsed array is read back to front
LoadForm_Reversed(f) == AddAll(<<>>, [i \in 1..Len(f) |-> f[Len(f) + 1 - i]])

\* loadSentMessages:169-170  new Set(JSON.parse(data)): the entries of the
\* saved array in their order, a repeated one kept where it first stands
LoadForm(f) == AddAll(<<>>, f)

SeqToSet(s) == {s[i] : i \in 1..Len(s)}

\* variant: the loop sends every message without consulting the cache
NextNew_NoLookup(c, ms, i) == IF i > Len(ms) THEN 0 ELSE i

\* pollSMS loop: index of the first message at or after i whose hash is not
\* in the cache, 0 when the loop runs off the end
RECURSIVE NextNew(_, _, _)
NextNew(c, ms, i) ==
  IF i > Len(ms) THEN 0
  ELSE IF ~HasHash(c, ms[i]) THEN i
  ELSE NextNew(c, ms, i + 1)

\* snapshots the console can show: up to MaxRows candidate rows, newest first;
\* two rows may carry the same hash (records equal in all four hashed fields)
Snapshots == UNION {[1..n -> Hashes] : n \in 0..MaxRows}

\* file contents an earlier run can have left: n distinct hashes, n <= SaveMax,
\* named 1..n in the order they were saved (hashes are interchangeable)
FileContents == {[i \in 1..n |-> i] : n \in 0..(IF SaveMax < NumHashes THEN SaveMax ELSE NumHashes)}

\* variant: every agent is given the file of bot 1
MessagesFile_Shared(b) == 1

\* startBot:38  messagesFile: `./data/bot-${botId}-messages.json`, named here
\* by the bot id it carries
MessagesFile(b) == b

(* --------------------------- instance record --------------------------- *)
\* the object literal of startBot plus the position of each coroutine on it
FreeInst ==
  [ id                  |-> 0,
    spc                 |-> "free",   \* startBot: free, config, launch, login, mark, conn, done
    telegramBot         |-> "null",   \* null, polling, stopped
    browser             |-> "null",   \* null, open, closed (handle to a closed browser)
    page                |-> "null",   \* null, blank (not logged in), in (logged in)
    sentMessageHashes   |-> <<>>,
    pollInterval        |-> FALSE,    \* timer armed
    healthCheckInterval |-> FALSE,    \* timer armed
    isPolling           |-> FALSE,
    pollCount           |-> 0,
    lastSuccessfulPoll  |-> 0,
    ppc                 |-> "idle",   \* pollSMS: idle, fetch, send
    fetchLive           |-> FALSE,    \* the fetch in flight still has its logged-in session
    fetchTimer          |-> FALSE,    \* a 15 s timeout callback of fetchLatestSMS is pending
    messages            |-> <<>>,     \* result of the fetch of the running cycle
    idx                 |-> 0,        \* loop position of the message being sent
    newCount            |-> 0,
    dst                 |-> 0,        \* sendOTPToTelegram: chat ids of the list already tried
    otpsSentCount       |-> 0,
    rbLaunch            |-> 0,        \* rebuild initializeBrowser calls awaiting puppeteer.launch
    rbLogin             |-> 0 ]       \* rebuild initializeBrowser calls between newPage and login

FreeObs ==
  [ res       |-> "none",  \* what the startBot call of this slot returned
    overlap   |-> FALSE,   \* the call began while another call for the id was in progress
    missed    |-> {},      \* hashes on the console at the baseline fetch that it did not cache
    sentOnce  |-> {},      \* hashes whose notification this instance completed
    evicted   |-> {},      \* hashes evicted from the cache since they were last added
    flushed   |-> {},      \* hashes this instance had notified and held when stopBot flushed it
    prior     |-> {},      \* flushed hashes of the agents stopped before this start
    inflight  |-> 0,       \* poll cycles of this instance that have begun and not ended
    conSame   |-> FALSE,   \* the console is unchanged since the last cycle fetched its record list
    sameSnap  |-> FALSE,   \* the running cycle fetched the record list the cycle before it fetched
    rebuilds  |-> 0,       \* rebuilds started by health checks
    rbSince   |-> 0,       \* rebuilds started since the last successful fetch
    answers   |-> <<>>,    \* what sendMessage answered per chat id tried, for the record being sent
    last      |-> <<>>,    \* the answers of the sendOTPToTelegram call that returned last
    oks       |-> 0,       \* sendMessage calls of this instance that succeeded
    ret       |-> {},      \* the value that call returned, {} when it returned none
    torn      |-> FALSE,   \* a health check dropped the session under the fetch in flight
    gotData   |-> FALSE,   \* the fetch that returned last had captured a data response
    blind     |-> FALSE,   \* the cycle in flight began during a rebuild, on a session not logged in
    stopSeen  |-> FALSE ]  \* stopBot ran for the id during this startBot call, which has not registered yet

\* the server process once it listens: running, maintenance_mode 'false'
\* (the row inserted at part_000:116)
\* atExit remembers the ids that were registered when the shutdown ran
ProcUp == [state |-> "up", maintenance |-> FALSE, atExit |-> {}]

\* no helper call is being looked at
NoCall == [fn |-> "none", arg |-> <<>>, done |-> FALSE, res |-> <<>>]

\* a slot no startBot call has taken yet
Reusable(k) == inst[k].spc = "free"

\* a startBot call for b is between its registry check and its return
InProgress(k, b) == inst[k].id = b /\ inst[k].spc \notin {"free", "done"}

\* a fresh installation: no messages file yet
InitFresh ==
  /\ bots = [b \in BotIds |-> 0]
  /\ inst = [k \in Slots |-> FreeInst]
  /\ files = [b \in BotIds |-> <<>>]
  /\ console = <<>>
  /\ now = 0
  /\ obs = [k \in Slots |-> FreeObs]
  /\ proc = ProcUp
  /\ call = NoCall

\* a process start that finds the messages file of an earlier run
Init ==
  /\ bots = [b \in BotIds |-> 0]
  /\ inst = [k \in Slots |-> FreeInst]
  /\ files \in [BotIds -> FileContents]
  /\ console = <<>>
  /\ now = 0
  /\ obs = [k \in Slots |-> FreeObs]
  /\ proc = ProcUp
  /\ call = NoCall

(* ---------------------------- fetchLatestSMS --------------------------- *)
\* variant: a fetch that timed out hands on the rows the console shows
FetchResult_Always(out) == console

\* what fetchLatestSMS returns: the candidate rows of the captured data
\* response (lines 323-348), or [] when none was captured within 15 s or the
\* fetch threw (lines 305-308, 350-354)
FetchResult(out) == IF out = "data" THEN console ELSE <<>>

\* variant: the time is noted whenever the fetch returns
PollStamp_Always(r, out) == now

\* fetchLatestSMS:322-323  lastSuccessfulPoll = Date.now() only inside
\* if (responseData && responseData.aaData)
PollStamp(r, out) == IF out = "data" THEN now ELSE r.lastSuccessfulPoll

(* ------------------------------ startBot ------------------------------- *)
\* the slot a new call takes: the lowest free one
NewSlot == CHOOSE k \in Slots : Reusable(k) /\ \A j \in Slots : Reusable(j) => k <= j

\* variant: the registry is not consulted
IsRegistered_Never(b) == FALSE

\* BotManager.js:15  if (this.bots.has(botId))
IsRegistered(b) == bots[b] # 0

\* startBot up to its first await (getBotConfig); a registered id returns at once
StartBot(b) ==
  IF IsRegistered(b)
  THEN UNCHANGED vars
  ELSE /\ \E k \in Slots : Reusable(k)
       /\ LET k == NewSlot
              others == {j \in Slots \ {k} : InProgress(j, b)}
              stoppedBefore == UNION {obs[j].flushed : j \in {i \in Slots : inst[i].id = b}}
          IN /\ inst' = [inst EXCEPT ![k] = [FreeInst EXCEPT !.id = b, !.spc = "config"]]
             /\ obs' = [j \in Slots |->
                          IF j = k THEN [FreeObs EXCEPT !.overlap = (others # {}),
                                                        !.prior = stoppedBefore]
                          ELSE IF j \in others THEN [obs[j] EXCEPT !.overlap = TRUE]
                          ELSE obs[j]]
       /\ UNCHANGED <<bots, files, console, now, proc, call>>

\* a caller that starts a bot only while no other startBot call is running
Quiet == \A k \in Slots : inst[k].spc \in {"free", "done"}

StartAlone(b) == Quiet /\ StartBot(b)

\* variant: the Telegram client is constructed before the configuration is looked at
NoConfig_ClientFirst(r) == [r EXCEPT !.spc = "done", !.telegramBot = "polling"]

\* startBot:21-23  if (!config) return { success: false, ... }: nothing was built
NoConfig(r) == [r EXCEPT !.spc = "done"]

\* variant: the result of initializeBrowser is not looked at
AfterInit_Ignored(ok) == "mark"

\* startBot:51-54  where startBot goes once initializeBrowser has returned:
\* on to markExistingMessagesAsSent, or out with an error
AfterInit(ok) == IF ok THEN "mark" ELSE "done"

\* getBotConfig resolved: no row -> error; else the instance is built, the
\* saved hashes are loaded, the Telegram client starts polling and
\* initializeBrowser runs up to puppeteer.launch
ConfigDone(k, out) ==
  /\ inst[k].spc = "config"
  /\ IF out = "missing"
     THEN /\ inst' = [inst EXCEPT ![k] = NoConfig(inst[k])]
          /\ obs' = [obs EXCEPT ![k].res = "noconfig", ![k].stopSeen = FALSE]
     ELSE /\ inst' = [inst EXCEPT ![k].spc = "launch",
                                  ![k].sentMessageHashes = LoadForm(files[MessagesFile(inst[k].id)]),
                                  ![k].lastSuccessfulPoll = now,
                                  ![k].telegramBot = "polling"]
          /\ UNCHANGED obs
  /\ UNCHANGED <<bots, files, console, now, proc, call>>

\* initializeBrowser of startBot: puppeteer.launch settled
StartLaunch(k, ok) ==
  /\ inst[k].spc = "launch"
  /\ IF ok
     THEN /\ inst' = [inst EXCEPT ![k].browser = "open", ![k].spc = "login"]
          /\ UNCHANGED obs
     ELSE /\ inst' = [inst EXCEPT ![k].spc = AfterInit(FALSE)]
          /\ obs' = [obs EXCEPT ![k].res = "initfail", ![k].stopSeen = FALSE]
  /\ UNCHANGED <<bots, files, console, now, proc, call>>

\* initializeBrowser of startBot: newPage .. login finished or threw; on
\* success markExistingMessagesAsSent starts its fetch
StartLogin(k, ok) ==
  /\ inst[k].spc = "login"
  /\ IF ok
     THEN /\ inst' = [inst EXCEPT ![k].page = "in", ![k].spc = AfterInit(TRUE),
                                  ![k].fetchTimer = TRUE]
          /\ UNCHANGED obs
     ELSE /\ inst' = [inst EXCEPT ![k].page = "blank", ![k].spc = AfterInit(FALSE)]
          /\ obs' = [obs EXCEPT ![k].res = "initfail", ![k].stopSeen = FALSE]
  /\ UNCHANGED <<bots, files, console, now, proc, call>>

\* the baseline fetch of markExistingMessagesAsSent returned (a record list,
\* or [] after the 15s timeout); then, in the same run: the hashes are added
\* and saved, startPolling makes the initial pollSMS call and arms both
\* timers, and the instance is stored in the registry
MarkDone(k, out) ==
  /\ inst[k].spc = "mark"
  /\ LET b == inst[k].id
         ms == FetchResult(out)
         c == AddAll(inst[k].sentMessageHashes, ms)
     IN /\ inst' = [inst EXCEPT ![k].spc = "conn",
                                ![k].sentMessageHashes = c,
                                ![k].lastSuccessfulPoll = PollStamp(inst[k], out),
                                ![k].isPolling = TRUE,
                                ![k].pollCount = 1,
                                ![k].ppc = "fetch",
                                ![k].fetchLive = TRUE,
                                ![k].pollInterval = TRUE,
                                ![k].healthCheckInterval = TRUE]
        /\ files' = [files EXCEPT ![MessagesFile(b)] = SavedForm(c)]
        /\ bots' = [bots EXCEPT ![b] = k]
        /\ obs' = [obs EXCEPT ![k].missed = SeqToSet(console) \ SeqToSet(c),
                              ![k].stopSeen = FALSE,
                              ![k].gotData = (out = "data"),
                              ![k].inflight = 1]
  /\ UNCHANGED <<console, now, proc, call>>

\* sendConnectionMessage finished: startBot returns success
ConnDone(k) ==
  /\ inst[k].spc = "conn"
  /\ inst' = [inst EXCEPT ![k].spc = "done"]
  /\ obs' = [obs EXCEPT ![k].res = "ok"]
  /\ UNCHANGED <<bots, files, console, now, proc, call>>

(* ------------------------------ stopBot -------------------------------- *)
\* what is remembered about an instance once stopBot has run on it: its start
\* result, what it had notified and flushed, and its coroutines in flight
StoppedObs(o, saved) ==
  [FreeObs EXCEPT !.res = o.res, !.overlap = o.overlap,
                  !.flushed = o.sentOnce \cap SeqToSet(saved),
                  !.inflight = o.inflight, !.rebuilds = o.rebuilds]

\* variant: the health timer is left armed
Stopped_HealthTimerLeft(r) ==
  [r EXCEPT !.pollInterval = FALSE,
            !.telegramBot = "stopped",
            !.browser = IF r.browser = "null" THEN "null" ELSE "closed",
            !.fetchLive = IF r.browser = "null" THEN r.fetchLive ELSE FALSE,
            !.rbLogin = IF r.browser = "null" THEN r.rbLogin ELSE 0]

\* stopBot:87-103 on the instance: both timers cleared, the Telegram client
\* stopped, the browser closed if there is a handle (a fetch or a login
\* running on it fails from then on)
Stopped(r) ==
  [r EXCEPT !.pollInterval = FALSE,
            !.healthCheckInterval = FALSE,
            !.telegramBot = "stopped",
            !.browser = IF r.browser = "null" THEN "null" ELSE "closed",
            !.fetchLive = IF r.browser = "null" THEN r.fetchLive ELSE FALSE,
            !.rbLogin = IF r.browser = "null" THEN r.rbLogin ELSE 0]

\* the startBot calls for b that are in progress and have not reached
\* this.bots.set see a stopBot call go by
SeenStop(o, b) ==
  [k \in Slots |-> IF InProgress(k, b) /\ inst[k].spc # "conn"
                   THEN [o[k] EXCEPT !.stopSeen = TRUE] ELSE o[k]]

\* variant: the messages file is emptied before the registry is consulted
StopAbsent_Truncate(b) ==
  /\ files' = [files EXCEPT ![b] = <<>>]
  /\ obs' = SeenStop(obs, b)
  /\ UNCHANGED <<bots, inst, console, now, proc, call>>

\* stopBot:79-81  if (!botInstance) return false;
StopAbsent(b) ==
  /\ obs' = SeenStop(obs, b)
  /\ UNCHANGED <<bots, inst, files, console, now, proc, call>>

StopBot(b) ==
  IF ~IsRegistered(b)
  THEN StopAbsent(b)
  ELSE LET k == bots[b]
           r == inst[k]
           saved == SavedForm(r.sentMessageHashes)
       IN /\ files' = [files EXCEPT ![MessagesFile(b)] = saved]
          /\ inst' = [inst EXCEPT ![k] = Stopped(r)]
          /\ bots' = [bots EXCEPT ![b] = 0]
          /\ obs' = [SeenStop(obs, b) EXCEPT ![k] = StoppedObs(obs[k], saved)]
          /\ UNCHANGED <<console, now, proc, call>>

(* ------------------------------- pollSMS ------------------------------- *)
\* variant: the in-flight guard is not consulted
PollBusy_Never(r) == FALSE

\* BotManager.js:442  if (botInstance.isPolling) return;
PollBusy(r) == r.isPolling

\* fetchLatestSMS:280  if (!botInstance.page || !botInstance.browser) return [];
NoSession(r) == r.page = "null" \/ r.browser = "null"

\* the cycle is over: finally { isPolling = false }
EndCycle(r) ==
  [r EXCEPT !.isPolling = FALSE, !.ppc = "idle", !.fetchLive = FALSE,
            !.messages = <<>>, !.idx = 0, !.newCount = 0, !.dst = 0]

\* the for loop of pollSMS from position i on, up to the next await or the
\* end of the cycle: cached messages are skipped; the first uncached one is
\* handed to sendOTPToTelegram (its first sendMessage is issued at once);
\* at the end of the list the cache is saved if anything was sent
RunLoop(r, c, ms, i, n) ==
  LET j == NextNew(c, ms, i)
  IN IF j = 0
     THEN [inst |-> EndCycle([r EXCEPT !.sentMessageHashes = c]),
           save |-> (n > 0)]
     ELSE [inst |-> [r EXCEPT !.sentMessageHashes = c, !.ppc = "send",
                              !.messages = ms, !.idx = j, !.newCount = n,
                              !.dst = 0],
           save |-> FALSE]

\* a poll timer tick: pollSMS up to its first await
PollTick(k) ==
  /\ inst[k].pollInterval
  /\ inst[k].pollCount < MaxPolls
  /\ IF PollBusy(inst[k])
     THEN UNCHANGED vars
     ELSE LET r == [inst[k] EXCEPT !.isPolling = TRUE, !.pollCount = inst[k].pollCount + 1]
          IN /\ IF NoSession(r)
                THEN /\ inst' = [inst EXCEPT ![k] = EndCycle(r)]
                     /\ obs' = [obs EXCEPT ![k].conSame = FALSE,
                                           ![k].sameSnap = FALSE]
                ELSE /\ inst' = [inst EXCEPT ![k] =
                                   [r EXCEPT !.ppc = "fetch",
                                             !.fetchTimer = TRUE,
                                             !.fetchLive = (r.browser = "open" /\ r.page = "in")]]
                     /\ obs' = [obs EXCEPT ![k].inflight = obs[k].inflight + 1,
                                           ![k].blind = /\ ~(r.browser = "open" /\ r.page = "in")
                                                        /\ r.rbLaunch + r.rbLogin > 0]
             /\ UNCHANGED <<bots, files, console, now, proc, call>>

\* fetchLatestSMS of a poll cycle returned: a record list when the data
\* response was captured on a live logged-in session, [] on timeout or error;
\* the loop then runs up to the first send
FetchEnd(k, out) ==
  /\ inst[k].ppc = "fetch"
  /\ out = "data" => inst[k].fetchLive
  /\ LET ms == FetchResult(out)
         r == [inst[k] EXCEPT !.lastSuccessfulPoll = PollStamp(inst[k], out)]
         go == RunLoop(r, r.sentMessageHashes, ms, 1, 0)
     IN /\ inst' = [inst EXCEPT ![k] = go.inst]
        /\ obs' = [obs EXCEPT ![k].conSame = (out = "data"),
                              ![k].sameSnap = (out = "data" /\ obs[k].conSame),
                              ![k].rbSince = IF out = "data" THEN 0 ELSE obs[k].rbSince,
                              ![k].torn = FALSE,
                              ![k].blind = FALSE,
                              ![k].gotData = (out = "data"),
                              ![k].inflight = IF go.inst.ppc = "idle"
                                              THEN obs[k].inflight - 1 ELSE obs[k].inflight]
  /\ UNCHANGED <<bots, files, console, now, proc, call>>

\* variant: a failed send leaves the loop over the chat ids
NextDst_Abort(d, ok) == IF ok THEN d + 1 ELSE NumDest

\* sendOTPToTelegram:428-435  the catch is inside the for loop: after a send,
\* failed or not, the loop goes on to the next chat id
NextDst(d, ok) == d + 1

\* variant: a failed send is counted too
Counted_Always(n, ok) == n + 1

\* sendOTPToTelegram:431  otpsSentCount++ after a sendMessage that resolved
Counted(n, ok) == IF ok THEN n + 1 ELSE n

\* sendOTPToTelegram has no return statement: the call yields undefined
SendReturns(answers) == {}

\* one sendMessage of sendOTPToTelegram settled, resolved (ok) or rejected
SendTo(k, ok) ==
  /\ inst[k].ppc = "send"
  /\ inst[k].dst < NumDest
  /\ inst' = [inst EXCEPT ![k].dst = NextDst(inst[k].dst, ok),
                          ![k].otpsSentCount = Counted(inst[k].otpsSentCount, ok)]
  /\ obs' = [obs EXCEPT ![k].answers = Append(obs[k].answers, ok),
                        ![k].oks = IF ok THEN obs[k].oks + 1 ELSE obs[k].oks]
  /\ UNCHANGED <<bots, files, console, now, proc, call>>

\* variant: the hash is recorded only if a destination accepted the send
Recorded_IfDelivered(c, h, answers) ==
  IF \E i \in 1..Len(answers) : answers[i] THEN AddHash(c, h) ELSE c

\* pollSMS:453-454  sentMessageHashes.add(sms.hash) follows the awaited
\* sendOTPToTelegram, which catches every failure and returns nothing
Recorded(c, h, answers) == AddHash(c, h)

\* sendOTPToTelegram returned (whatever each destination answered): the hash
\* is added, the cache trimmed if over its limit, and the loop goes on
SendDone(k) ==
  /\ inst[k].ppc = "send"
  /\ LET r == inst[k]
         h == r.messages[r.idx]
         c1 == Recorded(r.sentMessageHashes, h, obs[k].answers)
         c2 == TrimCache(c1)
         go == RunLoop(r, c2, r.messages, r.idx + 1, r.newCount + 1)
     IN /\ inst' = [inst EXCEPT ![k] = go.inst]
        /\ files' = IF go.save THEN [files EXCEPT ![MessagesFile(r.id)] = SavedForm(c2)]
                    ELSE files
        /\ obs' = [obs EXCEPT ![k].sentOnce = obs[k].sentOnce \cup {h},
                              ![k].answers = <<>>,
                              ![k].last = obs[k].answers,
                              ![k].ret = SendReturns(obs[k].answers),
                              ![k].evicted = (obs[k].evicted \ {h})
                                               \cup (SeqToSet(c1) \ SeqToSet(c2)),
                              ![k].inflight = IF go.inst.ppc = "idle"
                                              THEN obs[k].inflight - 1 ELSE obs[k].inflight]
  /\ UNCHANGED <<bots, console, now, proc, call>>

\* sendOTPToTelegram returns once the loop over the chat ids is through
SendReturn(k) == inst[k].dst = NumDest /\ SendDone(k)

(* --------------------------- performHealthCheck ------------------------ *)
\* variant: the threshold itself already counts as stale
Stale_AtLimit(r) == now - r.lastSuccessfulPoll >= StaleAfter

\* BotManager.js:495  timeSinceLastPoll > 300000
Stale(r) == now - r.lastSuccessfulPoll > StaleAfter

\* variant: either condition alone is enough
NeedsRebuild_Either(r) == Stale(r) \/ r.browser # "null"

\* BotManager.js:495  timeSinceLastPoll > 300000 && botInstance.browser
NeedsRebuild(r) == Stale(r) /\ r.browser # "null"

\* a health timer tick: on a stale instance that has a browser, the browser
\* is closed, both handles are dropped and initializeBrowser is called without
\* being awaited (it runs up to puppeteer.launch); a login still running on
\* the closed browser fails without touching the instance; the clock moves in
\* steps of TickMs, more than the 60 s between two health checks, so
\* successive checks may read the same time
HealthCheck(k) ==
  /\ inst[k].healthCheckInterval
  /\ IF NeedsRebuild(inst[k])
     THEN /\ obs[k].rebuilds < MaxRebuilds
          /\ inst' = [inst EXCEPT ![k].browser = "null",
                                  ![k].page = "null",
                                  ![k].fetchLive = FALSE,
                                  ![k].rbLogin = 0,
                                  ![k].rbLaunch = inst[k].rbLaunch + 1]
          /\ obs' = [obs EXCEPT ![k].rebuilds = obs[k].rebuilds + 1,
                                ![k].rbSince = obs[k].rbSince + 1,
                                ![k].torn = (inst[k].ppc = "fetch")]
          /\ UNCHANGED <<bots, files, console, now, proc, call>>
     ELSE UNCHANGED vars

\* initializeBrowser of a rebuild: puppeteer.launch settled and, if it
\* resolved, newPage gave a page that is not logged in yet
RebuildLaunch(k, ok) ==
  /\ inst[k].rbLaunch > 0
  /\ inst' = IF ok
             THEN [inst EXCEPT ![k].rbLaunch = inst[k].rbLaunch - 1,
                               ![k].rbLogin = inst[k].rbLogin + 1,
                               ![k].browser = "open",
                               ![k].page = "blank"]
             ELSE [inst EXCEPT ![k].rbLaunch = inst[k].rbLaunch - 1]
  /\ UNCHANGED <<bots, files, console, now, obs, proc, call>>

\* initializeBrowser of a rebuild: newPage .. login finished or threw
RebuildLogin(k, ok) ==
  /\ inst[k].rbLogin > 0
  /\ inst' = [inst EXCEPT ![k].rbLogin = inst[k].rbLogin - 1,
                          ![k].page = IF ok THEN "in" ELSE "blank"]
  /\ UNCHANGED <<bots, files, console, now, obs, proc, call>>

\* the 15 s timeout callback of a fetch fires (lines 305-308): its first
\* statement is botInstance.page.off(...), which throws a TypeError when a
\* health check has set page to null; nothing catches an exception thrown
\* in a timer callback and the server registers no uncaughtException
\* handler, so the process dies
FetchTimeout(k) ==
  /\ inst[k].fetchTimer
  /\ IF inst[k].page = "null"
     THEN /\ proc' = [proc EXCEPT !.state = "crashed"]
          /\ UNCHANGED inst
     ELSE /\ inst' = [inst EXCEPT ![k].fetchTimer = FALSE]
          /\ UNCHANGED proc
  /\ UNCHANGED <<bots, files, console, now, obs, call>>

(* ----------------------------- environment ----------------------------- *)
\* time passes
Tick ==
  /\ now + TickMs <= MaxNow
  /\ now' = now + TickMs
  /\ UNCHANGED <<bots, inst, files, console, obs, proc, call>>

\* the vendor console receives a record; the oldest row leaves the page
NewRecord(h) ==
  /\ console' = SubSeq(<<h>> \o console, 1,
                       IF Len(console) + 1 > MaxRows THEN MaxRows ELSE Len(console) + 1)
  /\ obs' = [k \in Slots |-> [obs[k] EXCEPT !.conSame = FALSE]]
  /\ UNCHANGED <<bots, inst, files, now, proc, call>>

\* records arriving only while no agent has been stopped yet
AnyStopped == \E k \in Slots : inst[k].telegramBot = "stopped"

NewRecordBeforeStop(h) == ~AnyStopped /\ NewRecord(h)

\* records that are on the console before any agent is started
NewRecordBeforeStart(h) == (\A k \in Slots : Reusable(k)) /\ NewRecord(h)

(* ---------------------------- specification ---------------------------- *)
Next ==
  \/ \E b \in BotIds : StartBot(b)
  \/ \E k \in Slots, out \in {"ok", "missing"} : ConfigDone(k, out)
  \/ \E k \in Slots, ok \in BOOLEAN : StartLaunch(k, ok)
  \/ \E k \in Slots, ok \in BOOLEAN : StartLogin(k, ok)
  \/ \E k \in Slots, out \in {"data", "none"} : MarkDone(k, out)
  \/ \E k \in Slots : ConnDone(k)
  \/ \E b \in BotIds : StopBot(b)
  \/ \E k \in Slots : PollTick(k)
  \/ \E k \in Slots, out \in {"data", "none"} : FetchEnd(k, out)
  \/ \E k \in Slots : SendDone(k)
  \/ \E k \in Slots : HealthCheck(k)
  \/ \E k \in Slots, ok \in BOOLEAN : RebuildLaunch(k, ok)
  \/ \E k \in Slots, ok \in BOOLEAN : RebuildLogin(k, ok)
  \/ Tick
  \/ \E h \in Hashes : NewRecord(h)

Spec == Init /\ [][Next]_vars

\* the start path, common to every specification
StartSteps ==
  \/ \E k \in Slots, out \in {"ok", "missing"} : ConfigDone(k, out)
  \/ \E k \in Slots, ok \in BOOLEAN : StartLaunch(k, ok)
  \/ \E k \in Slots, ok \in BOOLEAN : StartLogin(k, ok)
  \/ \E k \in Slots, out \in {"data", "none"} : MarkDone(k, out)
  \/ \E k \in Slots : ConnDone(k)

\* the start path when every step of it succeeds but, possibly, the baseline fetch
StartOkSteps ==
  \/ \E k \in Slots : ConfigDone(k, "ok")
  \/ \E k \in Slots : StartLaunch(k, TRUE)
  \/ \E k \in Slots : StartLogin(k, TRUE)
  \/ \E k \in Slots, out \in {"data", "none"} : MarkDone(k, out)
  \/ \E k \in Slots : ConnDone(k)

\* lifecycle calls that overlap freely, on a messages file an earlier run
\* may have left; the console stays empty
NextLife ==
  \/ \E b \in BotIds : StartBot(b)
  \/ StartSteps
  \/ \E b \in BotIds : StopBot(b)
  \/ \E k \in Slots : PollTick(k)
  \/ \E k \in Slots, out \in {"data", "none"} : FetchEnd(k, out)

SpecLife == Init /\ [][NextLife]_vars

\* one agent run: records arriving, poll cycles
NextPoll ==
  \/ \E b \in BotIds : StartAlone(b)
  \/ StartOkSteps
  \/ \E k \in Slots : PollTick(k)
  \/ \E k \in Slots, out \in {"data", "none"} : FetchEnd(k, out)
  \/ \E k \in Slots : SendDone(k)
  \/ \E h \in Hashes : NewRecord(h)

SpecPoll == Init /\ [][NextPoll]_vars

\* one agent run on a console that shows the same records throughout, with
\* each sendMessage a step of its own
NextSend ==
  \/ \E b \in BotIds : StartAlone(b)
  \/ StartOkSteps
  \/ \E k \in Slots : PollTick(k)
  \/ \E k \in Slots, out \in {"data", "none"} : FetchEnd(k, out)
  \/ \E k \in Slots, ok \in BOOLEAN : SendTo(k, ok)
  \/ \E k \in Slots : SendReturn(k)
  \/ \E h \in Hashes : NewRecordBeforeStart(h)

SpecSend == InitFresh /\ [][NextSend]_vars

\* a run, its stop and a restart; from the stop on the console shows the
\* same records
NextRestart ==
  \/ \E b \in BotIds : StartAlone(b)
  \/ StartOkSteps
  \/ \E b \in BotIds : StopBot(b)
  \/ \E k \in Slots : PollTick(k)
  \/ \E k \in Slots, out \in {"data", "none"} : FetchEnd(k, out)
  \/ \E k \in Slots : SendDone(k)
  \/ \E h \in Hashes : NewRecordBeforeStop(h)

SpecRestart == InitFresh /\ [][NextRestart]_vars

\* one start at a time, time passing, health checks and rebuilds
NextHealth ==
  \/ \E b \in BotIds : StartAlone(b)
  \/ StartSteps
  \/ \E b \in BotIds : StopBot(b)
  \/ \E k \in Slots : PollTick(k)
  \/ \E k \in Slots, out \in {"data", "none"} : FetchEnd(k, out)
  \/ \E k \in Slots : HealthCheck(k)
  \/ \E k \in Slots, ok \in BOOLEAN : RebuildLaunch(k, ok)
  \/ \E k \in Slots, ok \in BOOLEAN : RebuildLogin(k, ok)
  \/ Tick

SpecHealth == InitFresh /\ [][NextHealth]_vars

\* two bot ids, each started at most once
TwoIds == {1, 2}

InitTwo ==
  /\ bots = [b \in TwoIds |-> 0]
  /\ inst = [k \in Slots |-> FreeInst]
  /\ files = [b \in TwoIds |-> <<>>]
  /\ console = <<>>
  /\ now = 0
  /\ obs = [k \in Slots |-> FreeObs]
  /\ proc = ProcUp
  /\ call = NoCall

StartOnce(b) == (\A k \in Slots : inst[k].id # b) /\ StartBot(b)

\* time read only between the coroutines: no start, cycle or rebuild pending
AllIdle ==
  \A k \in Slots : /\ inst[k].spc \in {"free", "done"}
                   /\ inst[k].ppc = "idle"
                   /\ inst[k].rbLaunch = 0 /\ inst[k].rbLogin = 0

TickIdle == AllIdle /\ Tick

\* one record is on the console before the agents start
FirstRecord == console = <<>> /\ NewRecordBeforeStart(1)

\* two agents side by side, both started before the clock moves: their
\* starts, poll cycles and stops interleave, and the agent of bot 1 also goes
\* stale and through health checks and session rebuilds
NextTwo ==
  \/ \E b \in TwoIds : now = 0 /\ StartOnce(b)
  \/ StartOkSteps
  \/ \E b \in TwoIds : StopBot(b)
  \/ \E k \in Slots : PollTick(k)
  \/ \E k \in Slots, out \in {"data", "none"} : FetchEnd(k, out)
  \/ \E k \in Slots : SendDone(k)
  \/ \E k \in Slots : inst[k].id = 1 /\ HealthCheck(k)
  \/ \E k \in Slots, ok \in BOOLEAN : inst[k].id = 1 /\ RebuildLaunch(k, ok)
  \/ \E k \in Slots, ok \in BOOLEAN : inst[k].id = 1 /\ RebuildLogin(k, ok)
  \/ TickIdle
  \/ FirstRecord

SpecTwo == InitTwo /\ [][NextTwo]_vars

\* the process is running
Up == proc.state = "up"

\* health checks and rebuilds with the fetch timeout callbacks, for as long
\* as the process lives
NextFault ==
  \/ Up /\ \E b \in BotIds : StartAlone(b)
  \/ Up /\ StartOkSteps
  \/ Up /\ \E k \in Slots : PollTick(k)
  \/ Up /\ \E k \in Slots, out \in {"data", "none"} : FetchEnd(k, out)
  \/ Up /\ \E k \in Slots : FetchTimeout(k)
  \/ Up /\ \E k \in Slots : HealthCheck(k)
  \/ Up /\ \E k \in Slots, ok \in BOOLEAN : RebuildLaunch(k, ok)
  \/ Up /\ \E k \in Slots, ok \in BOOLEAN : RebuildLogin(k, ok)
  \/ Up /\ Tick

SpecFault == InitFresh /\ [][NextFault]_vars

(* --------------------------- maskPhoneNumber --------------------------- *)
\* Array.prototype.slice(0, n) of a string kept as its sequence of characters
FirstN(c, n) == IF Len(c) <= n THEN c ELSE SubSeq(c, 1, n)

\* variant: the quotient is rounded down
Visible_Floor(len) == len \div 3

\* maskPhoneNumber:365-366  Math.ceil(length / 3)
Visible(len) == (len + 2) \div 3

\* maskPhoneNumber:370  const mask = '****'
Mask == <<"*", "*", "*", "*">>

\* maskPhoneNumber: a number shorter than 4 characters is returned as it is;
\* otherwise substring(0, v), the mask, substring(length - v)
maskPhoneNumber(phoneNumber) ==
  IF Len(phoneNumber) < 4
  THEN phoneNumber
  ELSE LET v == Visible(Len(phoneNumber))
       IN FirstN(phoneNumber, v) \o Mask \o LastN(phoneNumber, v)

\* phone numbers: strings of up to MaxPhoneLen characters over two digits
Phones == UNION {[1..n -> {"1", "2"}] : n \in 0..MaxPhoneLen}

(* ------------------------------ extractOTP ----------------------------- *)
\* A message body is kept as its sequence of tokens: a run of digits, one of
\* the three label words, another word, a separator (a colon or white
\* space), a hyphen.  Each token carries its characters.
Tok(t, d) == [t |-> t, d |-> d]

Labels == {"code", "otp", "verification"}

Tokens ==
  {Tok("num", <<"4", "8", "2">>),
   Tok("num", <<"4", "8", "2", "1">>),
   Tok("num", <<"9", "9", "9", "9", "9">>),
   Tok("num", <<"1", "2", "3", "4", "5", "6", "7", "8", "9">>),
   Tok("word", <<"ref">>),
   Tok("sep", <<" ">>),
   Tok("hyphen", <<"-">>)}
  \cup {Tok("label", <<l>>) : l \in Labels}

\* bodies of up to MaxTokens tokens; two runs of digits are never adjacent
\* (they would be one run)
Bodies ==
  {m \in UNION {[1..n -> Tokens] : n \in 0..MaxTokens} :
     \A i \in 1..(Len(m) - 1) : ~(m[i].t = "num" /\ m[i + 1].t = "num")}

\* \w: digits and letters
WordChars(tk) == tk.t \in {"num", "word", "label"}

\* \b on either side of token i
Bounded(m, i) ==
  /\ i = 1 \/ ~WordChars(m[i - 1])
  /\ i = Len(m) \/ ~WordChars(m[i + 1])

\* the tokens i..j of the body
Span(m, i, j) == SubSeq(m, i, j)

\* /\b(\d{4,8})\b/ matched at token i: the run of digits
BareAt(m, i) ==
  IF m[i].t = "num" /\ Len(m[i].d) >= 4 /\ Len(m[i].d) <= 8 /\ Bounded(m, i)
  THEN Span(m, i, i) ELSE <<>>

\* the first token after position i that is not a separator, 0 if none
RECURSIVE PastSeps(_, _)
PastSeps(m, i) ==
  IF i > Len(m) THEN 0
  ELSE IF m[i].t = "sep" THEN PastSeps(m, i + 1)
  ELSE i

\* /label[:\s]+(\d{3,8})/i matched at token i: the label, the separators
\* and up to 8 digits of the run that follows them
LabelAt(m, l, i) ==
  LET j == PastSeps(m, i + 1)
  IN IF /\ m[i] = Tok("label", <<l>>)
        /\ j > i + 1
        /\ m[j].t = "num" /\ Len(m[j].d) >= 3
     THEN Span(m, i, j - 1) \o <<Tok("num", FirstN(m[j].d, 8))>>
     ELSE <<>>

\* /(\d{3})-(\d{3})/ matched at token i: the last three digits of a run,
\* the hyphen, the first three digits of the next run
HyphenAt(m, i) ==
  IF /\ i + 2 <= Len(m)
     /\ m[i].t = "num" /\ Len(m[i].d) >= 3
     /\ m[i + 1].t = "hyphen"
     /\ m[i + 2].t = "num" /\ Len(m[i + 2].d) >= 3
  THEN <<Tok("num", LastN(m[i].d, 3)), m[i + 1], Tok("num", FirstN(m[i + 2].d, 3))>>
  ELSE <<>>

\* extractOTP:381-387  the patterns in the order of the array
Patterns == <<"bare", "code", "otp", "verification", "hyphen">>

\* the match of pattern p at token i, <<>> if it does not match there
MatchAt(m, p, i) ==
  IF p = "bare" THEN BareAt(m, i)
  ELSE IF p = "hyphen" THEN HyphenAt(m, i)
  ELSE LabelAt(m, p, i)

\* message.match(pattern)[0]: the leftmost match, <<>> if there is none
RECURSIVE FirstMatch(_, _, _)
FirstMatch(m, p, i) ==
  IF i > Len(m) THEN <<>>
  ELSE IF MatchAt(m, p, i) # <<>> THEN MatchAt(m, p, i)
  ELSE FirstMatch(m, p, i + 1)

\* extractOTP:394-395  the label prefixes are removed and the rest trimmed;
\* what is left are the characters of the tokens that are not a label or a
\* separator
RECURSIVE Clean(_)
Clean(match) ==
  IF match = <<>> THEN <<>>
  ELSE IF Head(match).t \in {"label", "sep"} THEN Clean(Tail(match))
  ELSE Head(match).d \o Clean(Tail(match))

\* return null
Null == <<"null">>

\* extractOTP:389-397  the for loop from pattern n on: the first pattern
\* that matches anywhere decides
RECURSIVE TryPatterns(_, _)
TryPatterns(m, n) ==
  IF n > Len(Patterns) THEN Null
  ELSE IF FirstMatch(m, Patterns[n], 1) # <<>> THEN Clean(FirstMatch(m, Patterns[n], 1))
  ELSE TryPatterns(m, n + 1)

extractOTP(message) == IF message = <<>> THEN Null ELSE TryPatterns(message, 1)

(* ------------------------------ row hash ------------------------------- *)
\* a row of aaData: the fields the code reads, each a short string
FieldValues == {<<"a">>, <<"b">>}

Rows == [f0 : FieldValues, f2 : FieldValues, f3 : FieldValues,
         f4 : FieldValues, f5 : FieldValues]

\* variant: the client tag is hashed too
MsgData_WithClient(row) ==
  row.f0 \o <<"_">> \o row.f2 \o <<"_">> \o row.f3 \o <<"_">> \o row.f4 \o <<"_">> \o row.f5

\* fetchLatestSMS:335  `${row[0]}_${row[2]}_${row[3]}_${row[5]}`
MsgData(row) ==
  row.f0 \o <<"_">> \o row.f2 \o <<"_">> \o row.f3 \o <<"_">> \o row.f5

\* fetchLatestSMS:336  the md5 digest of msgData, taken to be as good as
\* msgData itself: equal for equal strings, different for different ones
RowHash(row) == MsgData(row)

\* fetchLatestSMS:334-346  the record built from a row
Record(row) == [hash |-> RowHash(row), client |-> row.f4]

\* pollSMS:451-463 as a function: the records of the list that are handed to
\* sendOTPToTelegram, in order, starting from cache c
RECURSIVE Dispatched(_, _)
Dispatched(c, ms) ==
  IF ms = <<>> THEN <<>>
  ELSE IF HasHash(c, Head(ms).hash) THEN Dispatched(c, Tail(ms))
  ELSE <<Head(ms)>> \o Dispatched(TrimCache(AddHash(c, Head(ms).hash)), Tail(ms))

(* --------------------------- helper calls ------------------------------ *)
\* the hashes of the helper calls: one more than the limit
FlushHashes == 1..(FlushMax + 1)

\* the caches an instance can hold: distinct hashes in insertion order
Caches ==
  {c \in UNION {[1..n -> FlushHashes] : n \in 0..(FlushMax + 1)} :
     \A i, j \in 1..Len(c) : i # j => c[i] # c[j]}

\* a call of one of the two helpers of sendOTPToTelegram, not yet evaluated
Pending(fn, arg) == [fn |-> fn, arg |-> arg, done |-> FALSE, res |-> <<>>]

InitCalls ==
  /\ bots = [b \in BotIds |-> 0]
  /\ inst = [k \in Slots |-> FreeInst]
  /\ files = [b \in BotIds |-> <<>>]
  /\ console = <<>>
  /\ now = 0
  /\ obs = [k \in Slots |-> FreeObs]
  /\ proc = ProcUp
  /\ \/ \E p \in Phones : call = Pending("maskPhoneNumber", p)
     \/ \E m \in Bodies : call = Pending("extractOTP", m)
     \/ \E c \in Caches : call = Pending("saveSentMessages", c)
     \/ \E r1, r2 \in Rows : call = Pending("pollSMS", <<r1, r2>>)

MaskCall ==
  /\ call.fn = "maskPhoneNumber" /\ ~call.done
  /\ call' = [call EXCEPT !.done = TRUE, !.res = maskPhoneNumber(call.arg)]
  /\ UNCHANGED <<bots, inst, files, console, now, obs, proc>>

ExtractCall ==
  /\ call.fn = "extractOTP" /\ ~call.done
  /\ call' = [call EXCEPT !.done = TRUE, !.res = extractOTP(call.arg)]
  /\ UNCHANGED <<bots, inst, files, console, now, obs, proc>>

\* saveSentMessages on an instance that holds the cache call.arg
FlushCall ==
  /\ call.fn = "saveSentMessages" /\ ~call.done
  /\ files' = [files EXCEPT ![MessagesFile(1)] = Flushed(call.arg, FlushMax)]
  /\ call' = [call EXCEPT !.done = TRUE]
  /\ UNCHANGED <<bots, inst, console, now, obs, proc>>

\* loadSentMessages of a fresh instance for the same id, after that flush
LoadCall ==
  /\ call.fn = "saveSentMessages" /\ call.done
  /\ call' = [call EXCEPT !.fn = "loadSentMessages",
                          !.res = LoadForm(files[MessagesFile(1)])]
  /\ UNCHANGED <<bots, inst, files, console, now, obs, proc>>

\* one poll cycle of an instance with an empty cache on a list of two rows:
\* the records it dispatches
DedupCall ==
  /\ call.fn = "pollSMS" /\ ~call.done
  /\ call' = [call EXCEPT !.done = TRUE,
                          !.res = Dispatched(<<>>, [i \in 1..Len(call.arg) |-> Record(call.arg[i])])]
  /\ UNCHANGED <<bots, inst, files, console, now, obs, proc>>

NextCalls == MaskCall \/ ExtractCall \/ FlushCall \/ LoadCall \/ DedupCall

SpecCalls == InitCalls /\ [][NextCalls]_vars

(* ------------------------- the server process -------------------------- *)
\* POST /api/admin/maintenance/toggle: the UPDATE of maintenance_mode, then
\* botManager.enableMaintenanceMode() or disableMaintenanceMode().  The
\* BotManager class has neither method, so the call throws a TypeError
\* before any agent is touched.  In the handler of part_000:350-377 it is
\* thrown inside the async callback of db.run, a rejection nobody handles,
\* on which the Node of the Dockerfile (18) ends the process; the handler of
\* part_000:1321-1345 catches it and answers 500
ToggleMaintenance(enabled, out) ==
  /\ proc' = [proc EXCEPT !.maintenance = enabled, !.state = out]
  /\ UNCHANGED <<bots, inst, files, console, now, obs, call>>

\* variant: the loop ends after the first id
RegisteredIds_First(reg) ==
  {b \in DOMAIN reg : reg[b] # 0 /\ \A c \in DOMAIN reg : reg[c] # 0 => b <= c}

\* stopAllBots:117  Array.from(this.bots.keys())
RegisteredIds(reg) == {b \in DOMAIN reg : reg[b] # 0}

\* the SIGINT / SIGTERM handler: stopAllBots calls stopBot for every id of
\* the registry in one synchronous loop (stopBot does not await), then the
\* handler closes the database and calls process.exit(0); between the loop
\* and the exit only the handler's own await continuation runs
Shutdown ==
  LET ids == RegisteredIds(bots)
      hit(k) == inst[k].id \in ids /\ bots[inst[k].id] = k
  IN /\ bots' = [b \in DOMAIN bots |-> IF b \in ids THEN 0 ELSE bots[b]]
     /\ inst' = [k \in Slots |-> IF hit(k) THEN Stopped(inst[k]) ELSE inst[k]]
     /\ files' = [b \in DOMAIN files |->
                    IF b \in ids THEN SavedForm(inst[bots[b]].sentMessageHashes)
                    ELSE files[b]]
     /\ obs' = [k \in Slots |->
                  IF hit(k)
                  THEN StoppedObs(obs[k], SavedForm(inst[k].sentMessageHashes))
                  ELSE obs[k]]
     /\ proc' = [proc EXCEPT !.state = "exited",
                             !.atExit = {b \in DOMAIN bots : bots[b] # 0}]
     /\ UNCHANGED <<console, now, call>>

\* two agents and the process around them: the maintenance switch and the
\* shutdown signal arrive at any time while the process runs
NextProc ==
  \/ Up /\ \E b \in TwoIds : StartOnce(b)
  \/ Up /\ StartOkSteps
  \/ Up /\ \E b \in TwoIds : StopBot(b)
  \/ Up /\ \E k \in Slots : PollTick(k)
  \/ Up /\ \E k \in Slots, out \in {"data", "none"} : FetchEnd(k, out)
  \/ Up /\ \E k \in Slots : SendDone(k)
  \/ Up /\ FirstRecord
  \/ Up /\ \E enabled \in BOOLEAN, out \in {"up", "crashed"} : ToggleMaintenance(enabled, out)
  \/ Up /\ Shutdown

SpecProc == InitTwo /\ [][NextProc]_vars

(* ------------------------------- claims -------------------------------- *)
\* the instances of bot b whose poll or health timer is armed
Live(b) == {k \in Slots : inst[k].id = b /\ (inst[k].pollInterval \/ inst[k].healthCheckInterval)}

\* C1: of two startBot calls for one unregistered id that overlap, exactly one
\* returns success (the other is refused) and one agent ends up active: never
\* have both returned success
C1_OneOverlappingStartWins ==
  \A j, k \in Slots :
    (j # k /\ inst[j].id = inst[k].id /\ obs[j].overlap /\ obs[k].overlap
       /\ obs[j].res = "ok")
    => (obs[k].res # "ok" /\ Cardinality(Live(inst[j].id)) <= 1)

\* C2: in every reachable state at most one instance per bot id is
\* non-terminal, an instance with an armed poll or health timer counting as
\* non-terminal
C2_AtMostOneLiveInstance == \A b \in BotIds : Cardinality(Live(b)) <= 1

\* the hash being sent by the poll cycle of slot k
Sending(k) == inst[k].messages[inst[k].idx]

\* C3: a poll cycle dispatches no record whose hash is in the cache when it is
\* examined, so a hash this instance already notified is dispatched again
\* only after it was evicted from the cache
C3_NoDispatchOfCachedHash ==
  \A k \in Slots : inst[k].ppc = "send" =>
    /\ ~HasHash(inst[k].sentMessageHashes, Sending(k))
    /\ Sending(k) \in obs[k].sentOnce => Sending(k) \in obs[k].evicted

\* a hash is dispatched for the second time by one instance
C3_Witness ==
  \E k \in Slots : inst[k].ppc = "send" /\ Sending(k) \in obs[k].sentOnce

\* C4 as stated: a cycle that fetched the same record list as the cycle
\* before it dispatches nothing
C4_SecondCycleSilent ==
  \A k \in Slots : ~(inst[k].ppc = "send" /\ obs[k].sameSnap)

\* C4 amended: a cycle that fetched the same record list as the cycle before
\* it dispatches only hashes that were evicted from the cache after the
\* earlier cycle examined them
C4_SecondCycleOnlyEvicted ==
  \A k \in Slots : (inst[k].ppc = "send" /\ obs[k].sameSnap) => Sending(k) \in obs[k].evicted

\* the second of two cycles with the same record list is dispatching
C4_Witness ==
  \E k \in Slots : inst[k].ppc = "send" /\ obs[k].sameSnap /\ obs[k].evicted # {}

\* C5: an agent started after a stop, with the console showing the same
\* records, dispatches none of the records the stopped agent had notified
\* and flushed
C5_RestartSilent ==
  \A k \in Slots : inst[k].ppc = "send" => Sending(k) \notin obs[k].prior

\* C6: once startBot has run the baseline, every record that was on the
\* console at the baseline fetch is in the cache
C6_BaselineSeedsCache ==
  \A k \in Slots : inst[k].spc \in {"conn", "done"} => obs[k].missed = {}

\* C7 as stated: between two successful polls at most one rebuild is triggered
C7_OneRebuildPerEpisode == \A k \in Slots : obs[k].rbSince <= 1

\* C7 amended: rebuilds are triggered only during staleness, one per health
\* check: an instance that was rebuilt since its last successful poll is
\* still stale, and one step triggers at most one rebuild
C7_RebuildsOnlyWhileStale ==
  /\ [](\A k \in Slots : obs[k].rbSince > 0 =>
                           now - inst[k].lastSuccessfulPoll > StaleAfter)
  /\ [][\A k \in Slots : obs'[k].rbSince <= obs[k].rbSince + 1]_vars

\* a second rebuild was triggered with no successful poll in between
C7_Witness == \E k \in Slots : obs[k].rbSince = 2

\* C8: a step starts a rebuild only if more than 300 s have passed since
\* lastSuccessfulPoll and a browser handle exists
C8_RebuildOnlyIfStaleWithSession ==
  [][\A k \in Slots :
       obs'[k].rebuilds > obs[k].rebuilds =>
         /\ now - inst[k].lastSuccessfulPoll > StaleAfter
         /\ inst[k].browser # "null"
         /\ inst'[k].browser = "null" /\ inst'[k].page = "null"]_vars

\* a rebuild has just been started: handles dropped, launch pending
C8_Witness ==
  \E k \in Slots : /\ obs[k].rebuilds > 0 /\ inst[k].rbLaunch > 0
                   /\ inst[k].browser = "null"

\* C9: an agent whose health timer is armed and that has no browser handle
\* has a rebuild attempt under way, so it is never left without a session
C9_NeverLeftWithoutSession ==
  \A k \in Slots :
    (inst[k].healthCheckInterval /\ inst[k].browser = "null") => inst[k].rbLaunch > 0

\* C11: the step in which stopBot stops a registered instance deregisters
\* it, writes its cache to the file and leaves both timers cleared; from then
\* on the instance is never registered again, its timers stay cleared, and
\* it begins no poll cycle and no health-check rebuild
C11_StoppedForGood ==
  /\ [][\A b \in BotIds :
          (bots[b] # 0 /\ bots'[b] = 0) =>
             /\ files'[b] = SavedForm(inst[bots[b]].sentMessageHashes)
             /\ ~inst'[bots[b]].pollInterval
             /\ ~inst'[bots[b]].healthCheckInterval]_vars
  /\ [][\A k \in Slots :
          inst[k].telegramBot = "stopped" =>
             /\ bots'[inst[k].id] # k
             /\ ~inst'[k].pollInterval /\ ~inst'[k].healthCheckInterval
             /\ inst'[k].pollCount = inst[k].pollCount
             /\ obs'[k].inflight <= obs[k].inflight
             /\ obs'[k].rebuilds = obs[k].rebuilds]_vars

\* a stopped instance that a health check would rebuild were its timer armed
C11_Witness ==
  \E k \in Slots : /\ inst[k].telegramBot = "stopped"
                   /\ bots[inst[k].id] = 0
                   /\ now - inst[k].lastSuccessfulPoll > StaleAfter
                   /\ inst[k].browser = "closed"

\* C12: a stopped instance with no poll cycle and no rebuild in flight holds
\* no open browser
C12_StoppedHoldsNoBrowser ==
  \A k \in Slots :
    (inst[k].telegramBot = "stopped" /\ inst[k].ppc = "idle"
       /\ inst[k].rbLaunch = 0 /\ inst[k].rbLogin = 0)
    => inst[k].browser # "open"

\* C13: stopBot for an id that is not registered changes neither the
\* registry nor any instance nor any messages file
C13_StopAbsentIsNoOp ==
  [][\A b \in BotIds : (bots[b] = 0 /\ StopBot(b))
                          => UNCHANGED <<bots, inst, files>>]_vars

\* an unregistered id whose earlier agent left a stopped instance and a
\* non-empty messages file
C13_Witness ==
  \E b \in BotIds : /\ bots[b] = 0 /\ files[b] # <<>>
                    /\ \E k \in Slots : inst[k].id = b /\ inst[k].telegramBot = "stopped"

\* C14: startBot for a registered id changes neither the registry nor any
\* instance (none is created, the registered one keeps its cache, counters,
\* handles and timers) nor any messages file
C14_StartRegisteredIsNoOp ==
  [][\A b \in BotIds : (bots[b] # 0 /\ StartBot(b))
                          => UNCHANGED <<bots, inst, files>>]_vars

\* a registered id while a slot is free for a further instance
C14_Witness ==
  \E b \in BotIds : /\ bots[b] # 0 /\ inst[bots[b]].pollInterval
                    /\ \E k \in Slots : Reusable(k)

\* C15: an instance whose startBot call returned the browser-initialisation
\* error is not registered, has no timer and has run no poll cycle, and
\* nothing ever acts on it again
C15_FailedLoginStartsNothing ==
  /\ [](\A k \in Slots :
          obs[k].res = "initfail" =>
             /\ inst[k].spc = "done"
             /\ bots[inst[k].id] # k
             /\ ~inst[k].pollInterval /\ ~inst[k].healthCheckInterval
             /\ inst[k].pollCount = 0)
  /\ [][\A k \in Slots : obs[k].res = "initfail" => inst'[k] = inst[k]]_vars

\* a startBot call has returned after its login failed on a launched browser
C15_Witness ==
  \E k \in Slots : /\ obs[k].res = "initfail" /\ inst[k].page = "blank"
                   /\ inst[k].browser = "open"

\* C16: a startBot call that found no configuration has built nothing (the
\* slot holds the id and nothing else), is not registered, and its return
\* changed neither the registry nor any messages file
C16_NoConfigCreatesNothing ==
  /\ [](\A k \in Slots :
          obs[k].res = "noconfig" =>
             /\ inst[k] = [FreeInst EXCEPT !.id = inst[k].id, !.spc = "done"]
             /\ bots[inst[k].id] # k)
  /\ [][\A k \in Slots : (obs[k].res # "noconfig" /\ obs'[k].res = "noconfig")
                            => UNCHANGED <<bots, files>>]_vars

\* a startBot call has returned the configuration-not-found error
C16_Witness == \E k \in Slots : obs[k].res = "noconfig" /\ inst[k].spc = "done"

C18_CacheWithinCapacity ==
  \A k \in Slots : Len(inst[k].sentMessageHashes) <= CacheMax

\* C19: whenever a started agent (one whose baseline missed nothing) is
\* dispatching a notification, the messages file holds the saved form of
\* its cache
C19_FileFollowsCache ==
  \A k \in Slots :
    (inst[k].ppc = "send" /\ inst[k].spc \in {"conn", "done"} /\ obs[k].missed = {})
    => files[inst[k].id] = SavedForm(inst[k].sentMessageHashes)

\* C20: a poll cycle whose fetch returns no data ends at once: nothing is
\* dispatched, the cache, the messages file, lastSuccessfulPoll and the cycle
\* count stay as they are, and isPolling is cleared so that the next tick
\* runs a cycle
C20_FailedFetchHasNoEffect ==
  [][\A k \in Slots :
       FetchEnd(k, "none") =>
          /\ inst'[k].ppc = "idle" /\ ~inst'[k].isPolling
          /\ inst'[k].sentMessageHashes = inst[k].sentMessageHashes
          /\ inst'[k].lastSuccessfulPoll = inst[k].lastSuccessfulPoll
          /\ inst'[k].pollCount = inst[k].pollCount
          /\ obs'[k].sentOnce = obs[k].sentOnce
          /\ UNCHANGED <<bots, files>>]_vars

\* a cycle awaits its fetch on a live session while the console shows a
\* record that is not in the cache
C20_Witness ==
  \E k \in Slots : /\ inst[k].ppc = "fetch" /\ inst[k].fetchLive
                   /\ inst[k].spc = "done"
                   /\ \E i \in 1..Len(console) :
                         ~HasHash(inst[k].sentMessageHashes, console[i])

\* C10: at most one poll cycle per instance is in flight, and a poll tick
\* that finds a cycle in flight changes nothing
C10_OneCycleInFlight ==
  /\ [](\A k \in Slots : obs[k].inflight <= 1)
  /\ [][\A k \in Slots : (inst[k].isPolling /\ PollTick(k))
                           => UNCHANGED <<inst, files, obs>>]_vars

\* a cycle is in flight while the poll timer can tick again
C10_Witness ==
  \E k \in Slots : /\ inst[k].isPolling /\ inst[k].ppc = "send"
                   /\ inst[k].pollInterval /\ inst[k].pollCount < MaxPolls
                   /\ obs[k].inflight = 1

\* C21: when sendOTPToTelegram returns, every chat id of the list has been
\* tried exactly once, in order, whatever the earlier sends answered; the
\* hash is then recorded and the cycle goes on to the next new record
C21_EveryDestinationTried ==
  /\ [](\A k \in Slots : Len(obs[k].answers) = inst[k].dst /\ inst[k].dst <= NumDest)
  /\ [][\A k \in Slots :
          SendReturn(k) =>
             /\ Len(obs[k].answers) = NumDest
             /\ HasHash(inst'[k].sentMessageHashes, Sending(k))
             /\ (\E j \in (inst[k].idx + 1)..Len(inst[k].messages) :
                    ~HasHash(inst'[k].sentMessageHashes, inst[k].messages[j]))
                => (inst'[k].ppc = "send" /\ inst'[k].idx > inst[k].idx)]_vars

\* a call whose first send failed has returned after trying every chat id,
\* and the cycle is sending the next record
C21_Witness ==
  \E k \in Slots : /\ Len(obs[k].last) = NumDest /\ ~obs[k].last[1]
                   /\ inst[k].ppc = "send" /\ inst[k].idx > 1

\* C22 as stated: the value sendOTPToTelegram returns is the number of chat
\* ids whose send succeeded
C22_ReturnsSuccessCount ==
  \A k \in Slots :
    obs[k].last # <<>> =>
      obs[k].ret = {Cardinality({i \in 1..Len(obs[k].last) : obs[k].last[i]})}

\* C22 amended: sendOTPToTelegram returns no value; each send that succeeded
\* adds one to otpsSentCount, a failed one adds nothing
C22_CountsSuccessfulSends ==
  \A k \in Slots : obs[k].ret = {} /\ inst[k].otpsSentCount = obs[k].oks

\* a call has returned after one send succeeded and another one failed
C22_Witness ==
  \E k \in Slots : \E i, j \in 1..Len(obs[k].last) : obs[k].last[i] /\ ~obs[k].last[j]

\* C23: no failure of a fetch, a send, a rebuild or a torn-down session
\* escapes as an uncaught exception: the process never dies of one
C23_NothingUncaught == proc.state # "crashed"

\* C29: a poll cycle whose session a health check tore down comes to its end
\* as a failed cycle: the process never dies with such a cycle unfinished
C29_TornCycleEnds ==
  \A k \in Slots : obs[k].torn => proc.state = "up"

\* C30: a poll cycle that was in flight when stopBot ran completes without
\* effect outside its own instance: no step of a stopped instance changes
\* the registry or a messages file
C30_OrphanCompletionHarmless ==
  [][\A k \in Slots :
       (inst[k].telegramBot = "stopped" /\ inst'[k] # inst[k])
       => (bots' = bots /\ files' = files)]_vars

\* what belongs to the agent of bot b: its registry entry, its messages file
\* and its instances (cache, counters, session handles, timers, coroutines)
AgentState(b) ==
  [reg |-> bots[b], file |-> files[b],
   insts |-> {<<k, inst[k]>> : k \in {j \in Slots : inst[j].id = b}}]

\* C24: agents of different ids share no state: a step that changes what
\* belongs to one agent leaves what belongs to every other agent unchanged
C24_AgentsShareNothing ==
  [][\A a, b \in TwoIds :
       (a # b /\ AgentState(a)' # AgentState(a)) => AgentState(b)' = AgentState(b)]_vars

\* both agents are registered, one has been through a session rebuild and
\* has notified a record, and the other holds a different cache and file
C24_Witness ==
  \E j, k \in Slots :
    /\ inst[j].id = 1 /\ inst[k].id = 2 /\ bots[1] = j /\ bots[2] = k
    /\ obs[j].rebuilds > 0 /\ obs[j].sentOnce # {}
    /\ inst[j].sentMessageHashes # inst[k].sentMessageHashes
    /\ files[1] # files[2]

\* C25: switching maintenance on stops every registered agent: the step
\* that turns the setting on, if the process survives it, leaves the
\* registry empty
C25_SuspendStopsAgents ==
  [][(~proc.maintenance /\ proc'.maintenance /\ proc'.state = "up")
       => \A b \in DOMAIN bots : bots'[b] = 0]_vars

\* C26: when the process has terminated through the shutdown handler the
\* registry is empty, and every agent that was registered when the signal
\* arrived has both timers cancelled and its cache written to its file
C26_ShutdownStopsAll ==
  proc.state = "exited" =>
    /\ \A b \in DOMAIN bots : bots[b] = 0
    /\ \A b \in proc.atExit : \E k \in Slots :
          /\ inst[k].id = b
          /\ inst[k].telegramBot = "stopped"
          /\ ~inst[k].pollInterval /\ ~inst[k].healthCheckInterval
          /\ files[b] = SavedForm(inst[k].sentMessageHashes)

\* the process has terminated with two agents registered at the signal, one
\* of them holding a notified record in its cache
C26_Witness ==
  /\ proc.state = "exited"
  /\ Cardinality(proc.atExit) = 2
  /\ \E k \in Slots : obs[k].flushed # {}

\* the values of the labelled matches of a body
LabelValues(m) ==
  {Clean(LabelAt(m, l, i)) : l \in Labels, i \in 1..Len(m)} \ {<<>>}

\* C27: a labelled match takes precedence over a bare run of digits: for a
\* body with a label followed by 3 to 8 digits, extractOTP returns the
\* digits of a labelled match
C27_LabelFirst ==
  (call.fn = "extractOTP" /\ call.done /\ LabelValues(call.arg) # {})
  => call.res \in LabelValues(call.arg)

\* C28: a phone number of length L >= 4 is masked to its first c
\* characters, four mask characters and its last c characters, c the least
\* integer with 3c >= L; the two revealed parts do not overlap; a shorter
\* number is returned unchanged
C28_MaskShape ==
  (call.fn = "maskPhoneNumber" /\ call.done) =>
    LET p == call.arg
        r == call.res
        L == Len(p)
    IN IF L < 4 THEN r = p
       ELSE \E c \in 1..L :
              /\ 3 * c >= L /\ 3 * (c - 1) < L
              /\ Len(r) = 2 * c + 4
              /\ 2 * c <= L
              /\ \A i \in 1..c : r[i] = p[i] /\ r[c + 4 + i] = p[L - c + i]
              /\ \A i \in 1..4 : r[c + i] = "*"

\* a number whose length is not a multiple of 3 has been masked
C28_Witness ==
  call.fn = "maskPhoneNumber" /\ call.done /\ Len(call.arg) = 7 /\ Len(call.res) = 10

\* C31: a startBot call that was in progress, not yet registered, when
\* stopBot ran for its id does not register an agent afterwards
C31_StopCancelsPendingStart ==
  [][\A k \in Slots :
       (obs[k].stopSeen /\ bots[inst[k].id] # k) => bots'[inst[k].id] # k]_vars

\* C32: when startBot has returned an error, the instance it built has no
\* Telegram client polling and no open browser
C32_FailedStartLeavesNothing ==
  \A k \in Slots :
    obs[k].res \in {"noconfig", "initfail"}
    => (inst[k].telegramBot # "polling" /\ inst[k].browser # "open")

\* C33: a stopped instance hands no further record to sendOTPToTelegram:
\* no step of it begins a send
C33_StoppedDispatchesNothing ==
  [][\A k \in Slots :
       inst[k].telegramBot = "stopped"
       => ~(inst'[k].ppc = "send"
            /\ (inst[k].ppc # "send" \/ inst'[k].idx # inst[k].idx))]_vars

\* C34: a health check starts a rebuild only when no login of an earlier
\* rebuild is still in progress on the instance
C34_OneRebuildInFlight ==
  [][\A k \in Slots :
       obs'[k].rebuilds > obs[k].rebuilds => inst[k].rbLogin = 0]_vars

\* the loop iteration of the record being sent ends in this step
IterationEnds(k) ==
  /\ inst[k].ppc = "send"
  /\ inst'[k].ppc # "send" \/ inst'[k].idx # inst[k].idx

\* C35: when the loop iteration of an uncached record ends, its hash is in
\* the cache, whatever the destinations answered, and the record handed to
\* sendOTPToTelegram next, if any, is not one whose hash is cached
C35_ExaminedIsCached ==
  [][\A k \in Slots :
       IterationEnds(k)
       => /\ HasHash(inst'[k].sentMessageHashes, Sending(k))
          /\ inst'[k].ppc = "send"
             => ~HasHash(inst'[k].sentMessageHashes, inst'[k].messages[inst'[k].idx])]_vars

\* no destination has ever accepted a send of this instance, the last
\* record was refused by every destination, and its hash is in the cache
C35_Witness ==
  \E k \in Slots :
    /\ obs[k].oks = 0
    /\ Len(obs[k].last) = NumDest
    /\ obs[k].sentOnce # {}
    /\ obs[k].sentOnce \cap SeqToSet(inst[k].sentMessageHashes) # {}

\* C36: a poll attempt made during a rebuild, without a usable session, is
\* not escalated: it does not bring the agent down
C36_BlindPollNotEscalated ==
  \A k \in Slots : obs[k].blind => proc.state = "up"

\* C37: a flush followed by a load gives back the most recently added
\* hashes of the cache, all of them if the cache holds no more than the
\* save limit and as many as the limit otherwise, in their insertion order
C37_FlushLoadRoundTrip ==
  call.fn = "loadSentMessages" =>
    LET c == call.arg
        r == call.res
        n == IF Len(c) <= FlushMax THEN Len(c) ELSE FlushMax
    IN /\ Len(r) = n
       /\ \A i \in 1..n : r[i] = c[Len(c) - n + i]

\* a cache over the save limit has been flushed and loaded, and more than
\* one hash came back
C37_Witness ==
  /\ call.fn = "loadSentMessages"
  /\ Len(call.arg) > FlushMax
  /\ Len(call.res) > 1

\* a fetch of the instance returns in this step: the baseline fetch of
\* startBot or the fetch of a poll cycle
FetchReturns(k) ==
  \/ inst[k].spc = "mark" /\ inst'[k].spc # "mark"
  \/ inst[k].ppc = "fetch" /\ inst'[k].ppc # "fetch"

\* C38: once the instance is built, lastSuccessfulPoll never decreases, and
\* a step changes it only if a fetch returns in that step with a captured
\* data response, to the time of that step
C38_StampOnlyOnData ==
  [][\A k \in Slots :
       inst[k].spc \notin {"free", "config"} =>
         /\ inst'[k].lastSuccessfulPoll >= inst[k].lastSuccessfulPoll
         /\ (FetchReturns(k) /\ ~obs'[k].gotData)
              => inst'[k].lastSuccessfulPoll = inst[k].lastSuccessfulPoll
         /\ ~FetchReturns(k)
              => inst'[k].lastSuccessfulPoll = inst[k].lastSuccessfulPoll
         /\ (FetchReturns(k) /\ obs'[k].gotData)
              => inst'[k].lastSuccessfulPoll = now]_vars

\* after time has passed since its start, an instance has seen a fetch time
\* out (the stamp stayed behind) and, another one, a fetch succeed
C38_Witness ==
  \E j, k \in Slots :
    /\ inst[j].pollCount >= 2 /\ ~obs[j].gotData /\ inst[j].lastSuccessfulPoll < now
    /\ inst[k].pollCount >= 2 /\ obs[k].gotData /\ inst[k].lastSuccessfulPoll > 0

\* C39: a poll cycle that has started ends and clears isPolling: the
\* process does not end with a cycle still in flight
C39_CycleEnds ==
  proc.state # "up" => \A k \in Slots : ~inst[k].isPolling

\* rows that agree in date, destination, source and body
SameMessage(r1, r2) ==
  r1.f0 = r2.f0 /\ r1.f2 = r2.f2 /\ r1.f3 = r2.f3 /\ r1.f5 = r2.f5

\* C40: of two rows that agree in date, destination, source and body, a
\* poll cycle dispatches one record only, the first, whatever their client
\* tags; of two rows that differ in one of the four it dispatches both
C40_IdentityIsFourFields ==
  (call.fn = "pollSMS" /\ call.done) =>
    IF SameMessage(call.arg[1], call.arg[2])
    THEN Len(call.res) = 1 /\ call.res[1].client = call.arg[1].f4
    ELSE Len(call.res) = 2

\* two rows that differ in the client tag only were taken for one message
C40_Witness ==
  /\ call.fn = "pollSMS" /\ call.done
  /\ SameMessage(call.arg[1], call.arg[2])
  /\ call.arg[1].f4 # call.arg[2].f4
  /\ Len(call.res) = 1

====
